---- MODULE Spec2Model ----
(***************************************************************************)
(* College basketball score scraper: the request client (safe_get), the    *)
(* per-day extraction (scrape_day, parse_day), the output store            *)
(* (append_to_master, get_existing_dates) and the drivers                  *)
(* (run_auto_scrape, rescrape_failed_days, scrape_range).                  *)
(*                                                                         *)
(* Durations are in tenths of a second (3.1 s = 31).                       *)
(***************************************************************************)
EXTENDS Integers, Sequences, FiniteSets, TLC

VARIABLES
    g,           \* the safe_get call in progress (request client)
    start_date,  \* the requested range
    end_date,
    store,       \* Output Store: the data rows of the csv file, in file order
    store_exists,\* os.path.exists(OUTPUT_PATH)
    store_hdrs,  \* for each header line of the file, the number of data rows above it
    ledger,      \* scrape_log.txt: the lines "<date>: <n> games scraped"
    mode,        \* entry point running: "idle", "range", "rescrape", "rebuild"
    pc,          \* position inside the entry point
    existing,    \* run_auto_scrape: get_existing_dates(OUTPUT_PATH)
    todo,        \* rescrape_failed_days: the failed dates still to visit
    current,     \* the day being processed
    page,        \* scrape_day: the scoreboard page fetched
    box,         \* scrape_day: index of the td.gamelink the loop is at
    rows,        \* scrape_day: rows collected so far
    df_day,      \* the frame scrape_day returned
    write_header,\* scrape_range: header still to be written
    runs,        \* number of entry points started so far
    hist         \* history of the run, read by the properties only

----------------------------------------------------------------------------
(* Request client: final_scores_scraper_auto.safe_get                      *)

\* time.sleep(3.1) after every request that returned a response
PACE == 31

\* random.uniform(1.0, 3.0): sampled jitter values
Jitters == {10, 20, 30}

\* what one requests.get can do: a response with a status, or an exception
Kinds == {"200", "429", "other", "error"}

Outcomes == [kind : Kinds, jitter : Jitters]

\* safe_get(url, headers, retries=4, base_delay=8.0) for the scoreboard and
\* safe_get(game_url, HEADERS, retries=3, base_delay=3.0) for a game page
CallSites == {[retries |-> 4, base_delay |-> 80], [retries |-> 3, base_delay |-> 30]}

\* mutation of Pow2: the backoff does not grow with the attempt
Pow2Flat(n) == 1

\* 2 ** attempt
Pow2(n) == 2 ^ n

\* entry of safe_get: attempt = 0, nothing requested yet
NewGet(retries, base_delay) ==
    [retries |-> retries, base_delay |-> base_delay, attempt |-> 0,
     status |-> "running", requests |-> 0, hist |-> << >>, waits |-> << >>]

Sleep(why, dur) == [why |-> why, dur |-> dur]

\* mutation of GetCanTry: the loop runs once more than the budget, range(retries + 1)
GetCanTryOneMore(c) == c.status = "running" /\ c.attempt <= c.retries

\* the loop `for attempt in range(retries)` still has an iteration to run
GetCanTry(c) == c.status = "running" /\ c.attempt < c.retries

\* mutation of GetIter: every status other than 200 is retried like a 429
GetIterRetryAny(c, o) ==
    LET c1 == [c EXCEPT !.requests = @ + 1, !.hist = Append(@, o.kind)]
    IN  CASE o.kind = "error" ->
                [c1 EXCEPT !.waits = Append(@, Sleep("error", c.base_delay)),
                           !.attempt = @ + 1]
          [] o.kind = "200" ->
                [c1 EXCEPT !.waits = Append(@, Sleep("pace", PACE)),
                           !.status = "ok"]
          [] OTHER ->
                [c1 EXCEPT !.waits = Append(Append(@, Sleep("pace", PACE)),
                                Sleep("backoff", c.base_delay * Pow2(c.attempt) + o.jitter)),
                           !.attempt = @ + 1]

\* mutation of GetIter: the pause after a 200 response is not taken
GetIterNoPace(c, o) ==
    LET c1 == [c EXCEPT !.requests = @ + 1, !.hist = Append(@, o.kind)]
    IN  CASE o.kind = "error" ->
                [c1 EXCEPT !.waits = Append(@, Sleep("error", c.base_delay)),
                           !.attempt = @ + 1]
          [] o.kind = "200" ->
                [c1 EXCEPT !.status = "ok"]
          [] o.kind = "429" ->
                [c1 EXCEPT !.waits = Append(Append(@, Sleep("pace", PACE)),
                                Sleep("backoff", c.base_delay * Pow2(c.attempt) + o.jitter)),
                           !.attempt = @ + 1]
          [] OTHER ->
                [c1 EXCEPT !.waits = Append(@, Sleep("pace", PACE)),
                           !.status = "fail"]

\* one iteration of the loop body, the request ending in outcome o
GetIter(c, o) ==
    LET c1 == [c EXCEPT !.requests = @ + 1, !.hist = Append(@, o.kind)]
    IN  CASE o.kind = "error" ->
                [c1 EXCEPT !.waits = Append(@, Sleep("error", c.base_delay)),
                           !.attempt = @ + 1]
          [] o.kind = "200" ->
                [c1 EXCEPT !.waits = Append(@, Sleep("pace", PACE)),
                           !.status = "ok"]
          [] o.kind = "429" ->
                [c1 EXCEPT !.waits = Append(Append(@, Sleep("pace", PACE)),
                                Sleep("backoff", c.base_delay * Pow2(c.attempt) + o.jitter)),
                           !.attempt = @ + 1]
          [] OTHER ->
                [c1 EXCEPT !.waits = Append(@, Sleep("pace", PACE)),
                           !.status = "fail"]

\* the loop ran out: "Gave up after {retries} retries", return None
GetExhaust(c) == [c EXCEPT !.status = "fail"]

\* a whole call of safe_get against the outcome sequence outs
RECURSIVE RunGet(_, _)
RunGet(c, outs) ==
    IF c.status # "running" THEN c
    ELSE IF GetCanTry(c) THEN RunGet(GetIter(c, outs[c.attempt + 1]), outs)
    ELSE GetExhaust(c)

safe_get(outs, retries, base_delay) == RunGet(NewGet(retries, base_delay), outs)

----------------------------------------------------------------------------
(* Calendar: datetime, timedelta(days=1), strftime                         *)

Date(y, m, d) == [year |-> y, month |-> m, day |-> d]

IsLeap(y) == (y % 4 = 0 /\ y % 100 # 0) \/ y % 400 = 0

DaysIn(y, m) ==
    IF m = 2 THEN (IF IsLeap(y) THEN 29 ELSE 28)
    ELSE IF m \in {4, 6, 9, 11} THEN 30 ELSE 31

\* current += timedelta(days=1)
NextDay(d) ==
    IF d.day < DaysIn(d.year, d.month) THEN [d EXCEPT !.day = @ + 1]
    ELSE IF d.month < 12 THEN Date(d.year, d.month + 1, 1)
    ELSE Date(d.year + 1, 1, 1)

\* current <= end_date
DateLE(a, b) ==
    \/ a.year < b.year
    \/ a.year = b.year /\ a.month < b.month
    \/ a.year = b.year /\ a.month = b.month /\ a.day <= b.day

RECURSIVE PlusDays(_, _)
PlusDays(d, n) == IF n = 0 THEN d ELSE PlusDays(NextDay(d), n - 1)

\* target_date.strftime("%Y-%m-%d"): the text written to the date column
\* and the ledger by the requests-based scraper
IsoStr(d) == [fmt |-> "Y-m-d", year |-> d.year, month |-> d.month, day |-> d.day]

\* date_obj.strftime("%-m/%-d/%Y"): the text parse_day writes
MdyStr(d) == [fmt |-> "m/d/Y", year |-> d.year, month |-> d.month, day |-> d.day]

OFFSEASON_MONTHS == {5, 6, 7, 8, 9, 10}

IN_SEASON_MONTHS == {11, 12, 1, 2, 3, 4}

is_in_season(d) == d.month \in IN_SEASON_MONTHS

----------------------------------------------------------------------------
(* Page content, as BeautifulSoup selects it                               *)

\* a <tr> of table.teams: the team link (a: present, name: its text, men:
\* "/men/" in its href) and the td.right score cell (td: present, int: its
\* text parses with int(), v: the parsed value)
TeamRow(a, name, men, td, isint, v) ==
    [a |-> a, name |-> name, men |-> men, td |-> td, int |-> isint, v |-> v]

\* a <tr> of table.linescore: text of the first cell, and the last cell
LineRow(name, isint, v) == [name |-> name, int |-> isint, v |-> v]

\* an element of the lists `teams` and `scores`: a bs4 Tag (select) or a
\* plain str / int (the fallbacks)
Tag(x) == [tag |-> TRUE, val |-> x]

Plain(x) == [tag |-> FALSE, val |-> x]

\* the games the sample pages are about
G1 == [away_team |-> "B", away |-> 65, home_team |-> "A", home |-> 70, ot |-> FALSE]

G2 == [away_team |-> "D", away |-> 79, home_team |-> "C", home |-> 80, ot |-> TRUE]

\* the pairing of G1 again, with another score: a home loss
G3 == [away_team |-> "B", away |-> 75, home_team |-> "A", home |-> 60, ot |-> FALSE]

\* teams and score of G1, marked OT
G4 == [away_team |-> "B", away |-> 65, home_team |-> "A", home |-> 70, ot |-> TRUE]

Games == {G1, G2, G3, G4}

\* markup generations of a game page: div.scorebox, table.linescore,
\* div.game_summary.gender-m table.teams
Formats == {"current", "linescore", "old"}

\* the game page behind a detail link
GamePageOf(gm, fmt) ==
    [sb_teams  |-> IF fmt = "current" THEN << gm.away_team, gm.home_team >> ELSE << >>,
     sb_scores |-> IF fmt = "current" THEN << gm.away, gm.home >> ELSE << >>,
     ls_present |-> fmt = "linescore",
     ls_rows   |-> IF fmt = "linescore"
                   THEN << LineRow(gm.away_team, TRUE, gm.away),
                           LineRow(gm.home_team, TRUE, gm.home) >>
                   ELSE << >>,
     old_present |-> fmt = "old",
     old_rows  |-> IF fmt = "old"
                   THEN << TeamRow(TRUE, gm.away_team, TRUE, TRUE, TRUE, gm.away),
                           TeamRow(TRUE, gm.home_team, TRUE, TRUE, TRUE, gm.home) >>
                   ELSE << >>,
     ot |-> gm.ot]

\* the four class signals of a block: cls_m   div.game_summary has class gender-m
\*                                    mens_text   "Men's" occurs in the block text
\*                                    td_women    a class of td.gamelink contains "women"
\*                                    href_women  "women" occurs in the link href
\*                                    school_men  "/men/" occurs in the team links
Signals ==
    [cls_m : BOOLEAN, mens_text : BOOLEAN, td_women : BOOLEAN, href_women : BOOLEAN,
     school_men : BOOLEAN]

MenSig ==
    [cls_m |-> TRUE, mens_text |-> TRUE, td_women |-> FALSE, href_women |-> FALSE,
     school_men |-> TRUE]

WomenSig ==
    [cls_m |-> FALSE, mens_text |-> FALSE, td_women |-> TRUE, href_women |-> TRUE,
     school_men |-> FALSE]

\* a div.game_summary of the scoreboard page with its td.gamelink: link says
\* whether the cell holds an <a>, href_date is the date in
\* /cbb/boxscores/<date>-<slug>.html
BlockOf(gm, fmt, sig, link, href_date) ==
    [cls_m |-> sig.cls_m, mens_text |-> sig.mens_text,
     td_women |-> sig.td_women, href_women |-> sig.href_women,
     link |-> link, href_date |-> href_date,
     trows |-> << TeamRow(TRUE, gm.away_team, sig.school_men, TRUE, TRUE, gm.away),
                  TeamRow(TRUE, gm.home_team, sig.school_men, TRUE, TRUE, gm.home) >>,
     ot |-> gm.ot,
     game |-> GamePageOf(gm, fmt)]

----------------------------------------------------------------------------
(* Extraction: scrape_day                                                  *)

\* lines 84-106: one div.game_summary.gender-m of a pre-2004 page; the
\* result is the list of rows it adds (none when the try block raises)
SummaryRows(b, date_str) ==
    IF Len(b.trows) < 2 THEN << >>
    ELSE LET away_row == b.trows[1]
             home_row == b.trows[2]
         IN  IF ~away_row.a \/ ~home_row.a THEN << >>
             ELSE IF ~away_row.td \/ ~away_row.int THEN << >>
             ELSE IF ~home_row.td \/ ~home_row.int THEN << >>
             ELSE << [date |-> date_str,
                      home_team |-> home_row.name,
                      away_team |-> away_row.name,
                      home |-> home_row.v,
                      away |-> away_row.v,
                      total |-> home_row.v + away_row.v,
                      margin |-> home_row.v - away_row.v,
                      ot |-> FALSE] >>

\* lines 109-125: the guards a td.gamelink passes before its game page is fetched
BoxWanted(b, target_date) ==
    /\ b.link
    /\ b.href_date = target_date
    /\ ~(b.href_women \/ b.td_women)
    /\ target_date.month \notin OFFSEASON_MONTHS

TS(teams, scores) == [teams |-> teams, scores |-> scores]

Short(ts) == Len(ts.teams) < 2 \/ Len(ts.scores) < 2

\* lines 133-134
Scorebox(gp) ==
    TS([i \in 1..Len(gp.sb_teams) |-> Tag(gp.sb_teams[i])],
       [i \in 1..Len(gp.sb_scores) |-> Tag(gp.sb_scores[i])])

\* lines 136-152: table.linescore
Fallback1(gp, ts) ==
    IF ~Short(ts) \/ ~gp.ls_present \/ Len(gp.ls_rows) < 2 THEN ts
    ELSE LET away_cells == gp.ls_rows[1]
             home_cells == gp.ls_rows[2]
         IN  IF away_cells.int /\ home_cells.int
             THEN TS(<< Plain(away_cells.name), Plain(home_cells.name) >>,
                     << Plain(away_cells.v), Plain(home_cells.v) >>)
             ELSE TS(<< >>, << >>)

\* lines 154-170: div.game_summary.gender-m table.teams
Fallback2(gp, ts) ==
    IF ~Short(ts) \/ ~gp.old_present \/ Len(gp.old_rows) < 2 THEN ts
    ELSE LET away_row == gp.old_rows[1]
             home_row == gp.old_rows[2]
         IN  IF /\ away_row.a /\ home_row.a
                /\ away_row.td /\ away_row.int
                /\ home_row.td /\ home_row.int
             THEN TS(<< Plain(away_row.name), Plain(home_row.name) >>,
                     << Plain(away_row.v), Plain(home_row.v) >>)
             ELSE TS(<< >>, << >>)

\* lines 179-180: int(x) if isinstance(x, int) else int(str(x).strip()).
\* str() of a Tag is its markup ('<div class="score">70</div>'), on which
\* int() raises ValueError
ScoreParses(e) == ~e.tag

\* mutation of GameRows: the margin is stored as an absolute value
GameRowsAbsMargin(gp, date_str) ==
    LET ts == Fallback2(gp, Fallback1(gp, Scorebox(gp)))
    IN  IF Short(ts) THEN << >>
        ELSE LET home_team == ts.teams[Len(ts.teams)].val
                 away_team == ts.teams[1].val
                 hs == ts.scores[Len(ts.scores)]
                 as == ts.scores[1]
             IN  IF ~ScoreParses(hs) \/ ~ScoreParses(as) THEN << >>
                 ELSE << [date |-> date_str,
                          home_team |-> home_team,
                          away_team |-> away_team,
                          home |-> hs.val,
                          away |-> as.val,
                          total |-> hs.val + as.val,
                          margin |-> IF hs.val >= as.val THEN hs.val - as.val
                                     ELSE as.val - hs.val,
                          ot |-> gp.ot] >>

\* lines 132-198: the rows a fetched game page adds
GameRows(gp, date_str) ==
    LET ts == Fallback2(gp, Fallback1(gp, Scorebox(gp)))
    IN  IF Short(ts) THEN << >>
        ELSE LET home_team == ts.teams[Len(ts.teams)].val
                 away_team == ts.teams[1].val
                 hs == ts.scores[Len(ts.scores)]
                 as == ts.scores[1]
             IN  IF ~ScoreParses(hs) \/ ~ScoreParses(as) THEN << >>
                 ELSE << [date |-> date_str,
                          home_team |-> home_team,
                          away_team |-> away_team,
                          home |-> hs.val,
                          away |-> as.val,
                          total |-> hs.val + as.val,
                          margin |-> hs.val - as.val,
                          ot |-> gp.ot] >>

\* subset=["date", "home_team", "away_team"] of scrape_day
DaySubset == {"date", "home_team", "away_team"}

\* subset=["home_team","away_team","home","away"] of parse_day
ParseSubset == {"home_team", "away_team", "home", "away"}

\* "canonical row key to avoid dupes"
canon_key(d, home, away, h, a) == << d, home, away, h, a >>

\* the values of a row in the columns of subset
SubsetKey(r, subset) == [c \in subset |-> r[c]]

RECURSIVE PickSeq(_, _, _)
PickSeq(frame, keepset, i) ==
    IF i > Len(frame) THEN << >>
    ELSE IF i \in keepset THEN << frame[i] >> \o PickSeq(frame, keepset, i + 1)
    ELSE PickSeq(frame, keepset, i + 1)

\* DataFrame.drop_duplicates(subset=..., keep=...): the first (keep="first",
\* the default) or the last row of each key stays, in the order of the frame
drop_duplicates(frame, subset, keep) ==
    PickSeq(frame,
            {i \in 1..Len(frame) :
                \A j \in (IF keep = "last" THEN (i + 1)..Len(frame) ELSE 1..(i - 1)) :
                    SubsetKey(frame[j], subset) # SubsetKey(frame[i], subset)},
            1)

----------------------------------------------------------------------------
(* Extraction: rebuild_scores_25yrs.parse_day                              *)

\* lines 73-85: (tname, sc); None is reported by the ok flags
row_to_team_score(tr) ==
    IF tr.a /\ ~tr.men THEN [t_ok |-> FALSE, t |-> "", s_ok |-> FALSE, s |-> 0]
    ELSE [t_ok |-> tr.a /\ tr.name # "", t |-> IF tr.a THEN tr.name ELSE "",
          s_ok |-> tr.td /\ tr.int, s |-> IF tr.td /\ tr.int THEN tr.v ELSE 0]

\* lines 52-112: the rows one div.game_summary adds to games
ParseBlock(b, date_obj) ==
    LET is_mens == b.cls_m \/ b.mens_text
    IN  IF ~is_mens THEN << >>
        ELSE IF ~b.link THEN << >>
        ELSE IF b.href_date # date_obj THEN << >>
        ELSE IF Len(b.trows) < 2 THEN << >>
        ELSE LET r1 == row_to_team_score(b.trows[1])
                 r2 == row_to_team_score(b.trows[2])
             IN  IF ~r1.t_ok \/ ~r2.t_ok \/ ~r1.s_ok \/ ~r2.s_ok THEN << >>
                 ELSE << [date |-> MdyStr(date_obj),
                          home_team |-> r2.t,
                          away_team |-> r1.t,
                          home |-> r2.s,
                          away |-> r1.s,
                          total |-> r2.s + r1.s,
                          margin |-> r2.s - r1.s,
                          ot |-> b.ot] >>

RECURSIVE ParseBlocks(_, _, _)
ParseBlocks(html, date_obj, i) ==
    IF i > Len(html) THEN << >>
    ELSE ParseBlock(html[i], date_obj) \o ParseBlocks(html, date_obj, i + 1)

\* lines 45-119
parse_day(html, date_obj) ==
    drop_duplicates(ParseBlocks(html, date_obj, 1), ParseSubset, "first")

----------------------------------------------------------------------------
(* Ledger and Output Store                                                 *)

\* logf.write(f"{date_str}: {n} games scraped\n")
LogLine(date_str, n) == [date |-> date_str, n |-> n]

\* "0 games scraped" in line: the decimal text of n ends in 0
HasZeroGames(line) == line.n % 10 = 0

\* datetime.strptime(date_str, "%Y-%m-%d")
StrpDate(date_str) == Date(date_str.year, date_str.month, date_str.day)

RECURSIVE SortedDates(_)
SortedDates(S) ==
    IF S = {} THEN << >>
    ELSE LET m == CHOOSE x \in S : \A y \in S : DateLE(StrpDate(x), StrpDate(y))
         IN  << m >> \o SortedDates(S \ {m})

\* mutation of find_failed_days: the failed dates latest first
find_failed_days_descending(log) ==
    LET up == SortedDates({log[i].date : i \in {j \in 1..Len(log) : HasZeroGames(log[j])}})
    IN  [k \in 1..Len(up) |-> up[Len(up) + 1 - k]]

\* rescrape_missed_days.find_failed_days: sorted(set(failed))
find_failed_days(log) ==
    SortedDates({log[i].date : i \in {j \in 1..Len(log) : HasZeroGames(log[j])}})

\* get_existing_dates: set(df["date"].unique()); set() without the file and
\* when reading it raises (readable = FALSE)
get_existing_dates(exists, readable, file_rows) ==
    IF ~exists \/ ~readable THEN {} ELSE {file_rows[i].date : i \in 1..Len(file_rows)}

\* mutation of AlreadyScraped: no day is recognised as scraped
AlreadyScrapedNever(date_str, found) == FALSE

\* line 267: date_str in existing
AlreadyScraped(date_str, found) == date_str \in found

----------------------------------------------------------------------------
(* Inputs                                                                  *)

\* longest list of candidate blocks on a sampled scoreboard page
MaxBoxes == 2

\* days in the requested range of a range run
RangeLen == 2

\* entry points started in one behaviour of the multi-day specification
MaxRuns == 3

\* the day of the single-day specification: an off-season day, the last
\* day served in the pre-2004 markup, a current season day
StartDates == {Date(2003, 5, 1), Date(2003, 12, 31), Date(2021, 11, 9)}

\* first day of the range of the multi-day specification: the last day
\* before an off-season month, a current season day
RangeStarts == {Date(2003, 4, 30), Date(2021, 11, 9)}

RECURSIVE SeqsUpTo(_, _)
SeqsUpTo(S, n) ==
    IF n = 0 THEN {<< >>}
    ELSE LET shorter == SeqsUpTo(S, n - 1)
         IN  shorter \cup {Append(q, x) : q \in {r \in shorter : Len(r) = n - 1}, x \in S}

\* men's blocks of the target day in every markup generation, and a women's block
CoreBlocks(d) ==
    {BlockOf(gm, fmt, MenSig, TRUE, d) : gm \in Games, fmt \in Formats}
        \cup {BlockOf(G1, "linescore", WomenSig, TRUE, d)}

\* one game under every combination of the class signals
SignalBlocks(d) == {BlockOf(G1, "linescore", sig, TRUE, d) : sig \in Signals}

\* a cell without link, and a block echoed from the adjacent day
LinkBlocks(d) ==
    {BlockOf(G1, "linescore", MenSig, FALSE, d),
     BlockOf(G1, "linescore", MenSig, TRUE, NextDay(d))}

\* the page of the competition-class scenario: two men's games (70-65, and
\* 80-79 with OT) and one women's game, in the markup generation fmt
ScenarioPage(d, fmt) ==
    << BlockOf(G1, fmt, MenSig, TRUE, d), BlockOf(G2, fmt, MenSig, TRUE, d),
       BlockOf(G1, fmt, WomenSig, TRUE, d) >>

\* a game listed twice, then the same pairing with another score
RematchPage(d) ==
    << BlockOf(G1, "linescore", MenSig, TRUE, d), BlockOf(G4, "old", MenSig, TRUE, d),
       BlockOf(G3, "linescore", MenSig, TRUE, d) >>

\* a game whose away team link has no text
GNoName == [away_team |-> "", away |-> 65, home_team |-> "A", home |-> 70, ot |-> FALSE]

\* a game whose away score cell reads -5
GNegative == [away_team |-> "B", away |-> -5, home_team |-> "A", home |-> 70, ot |-> FALSE]

\* the block of G1 with an away score cell that int() does not parse
NonIntBlock(d, fmt) ==
    LET b == BlockOf(G1, fmt, MenSig, TRUE, d)
    IN  [b EXCEPT !.trows[1].int = FALSE,
                  !.game.ls_rows = IF fmt = "linescore" THEN [@ EXCEPT ![1].int = FALSE] ELSE @,
                  !.game.old_rows = IF fmt = "old" THEN [@ EXCEPT ![1].int = FALSE] ELSE @]

\* candidates with an empty team name, a negative score, a non-integer score
InvalidBlocks(d) ==
    {BlockOf(gm, fmt, MenSig, TRUE, d) : gm \in {GNoName, GNegative}, fmt \in {"linescore", "old"}}
        \cup {NonIntBlock(d, fmt) : fmt \in {"linescore", "old"}}

\* scoreboard pages of the single-day specification
DayPages(d) ==
    SeqsUpTo(CoreBlocks(d), MaxBoxes)
        \cup {<< b >> : b \in SignalBlocks(d) \cup LinkBlocks(d)}
        \cup {ScenarioPage(d, fmt) : fmt \in Formats}
        \cup {RematchPage(d)}
        \cup {<< b >> : b \in InvalidBlocks(d)}
        \cup {<< b, BlockOf(G2, "linescore", MenSig, TRUE, d) >> : b \in InvalidBlocks(d)}

\* scoreboard pages of the multi-day specification
RangePages(d) ==
    {<< >>, << BlockOf(G1, "linescore", MenSig, TRUE, d) >>}

\* the pages the server may answer with for day d
PagesFor(rich, d) == IF rich THEN DayPages(d) ELSE RangePages(d)

\* server behaviours over the attempts of one safe_get call
OutSeqs(retries) == [1..retries -> Outcomes]

\* how safe_get(url, HEADERS) for a scoreboard can end
ScoreboardGets == {safe_get(outs, 4, 80).status : outs \in OutSeqs(4)}

\* how safe_get(game_url, HEADERS, retries=3, base_delay=3.0) can end
GameGets == {safe_get(outs, 3, 30).status : outs \in OutSeqs(3)}

----------------------------------------------------------------------------
(* State machine                                                           *)

vars == << g, start_date, end_date, store, store_exists, store_hdrs, ledger,
           mode, pc, existing, todo, current, page, box, rows, df_day,
           write_header, runs, hist >>

persistent == << store, store_exists, store_hdrs, ledger >>

range == << start_date, end_date >>

NoGet == NewGet(0, 0)

\* history: base        Len(store) when the entry point started
\*          last        how the previous entry point ended
\*          after_full  the entry point started right after a finished range run
\*          fetched     the entry point has requested a scoreboard
\*          completed   dates whose day was logged and appended, over all runs
\*          done_before completed, when the entry point started
\*          logged      the ledger line of the current day was written
\*          row_src     for each element of rows, the page index and path it came from
\*          got_page    indices of the boxes whose game page was fetched
\*          resumed     the entry point started after an interrupted one
\*          day         the day scrape_day or parse_day was last called for
\*          day_base    Len(store) before the last append
\*          call        the safe_get call g belongs to: -1 none, 0 the
\*                      scoreboard, i the game page of box i
\*          net         the requests issued and the sleeps taken, in order
\*          deleted     rows in the output file that scrape_range unlinked
\*          log_base    length of the ledger when the invocation started
\*          partial     dates appended to the store although a game page
\*                      of the day could not be fetched
NoHist ==
    [base |-> 0, last |-> "none", after_full |-> FALSE, fetched |-> FALSE,
     completed |-> {}, done_before |-> {}, logged |-> FALSE, row_src |-> << >>,
     got_page |-> {}, resumed |-> FALSE,
     day |-> Date(0, 0, 0), day_base |-> 0,
     call |-> -1, net |-> << >>, deleted |-> 0, log_base |-> 0, partial |-> {}]

InitAt(starts, len) ==
    /\ start_date \in starts
    /\ end_date = PlusDays(start_date, len - 1)
    /\ store = << >> /\ store_exists = FALSE /\ store_hdrs = << >>
    /\ ledger = << >>
    /\ mode = "idle" /\ pc = "idle"
    /\ existing = {} /\ todo = << >>
    /\ current = start_date
    /\ page = << >> /\ box = 0 /\ rows = << >> /\ df_day = << >>
    /\ write_header = FALSE
    /\ runs = 0
    /\ hist = NoHist

\* what a finished or killed process leaves: only the files
Reset ==
    /\ mode' = "idle" /\ pc' = "idle"
    /\ existing' = {} /\ todo' = << >>
    /\ current' = start_date
    /\ page' = << >> /\ box' = 0 /\ rows' = << >> /\ df_day' = << >>
    /\ write_header' = FALSE

StartHist(after) ==
    [hist EXCEPT !.base = Len(store), !.after_full = after, !.last = "running",
              !.fetched = FALSE, !.done_before = hist.completed, !.logged = FALSE,
              !.row_src = << >>, !.got_page = {},
              !.resumed = (hist.last = "crash"),
              !.day = Date(0, 0, 0), !.day_base = Len(store), !.deleted = 0,
              !.log_base = Len(ledger)]

\* run_auto_scrape, lines 257-262
StartRange(limit) ==
    /\ mode = "idle" /\ runs < limit
    /\ mode' = "range" /\ pc' = "loop"
    /\ \E readable \in BOOLEAN :
          existing' = get_existing_dates(store_exists, readable, store)
    /\ current' = start_date
    /\ runs' = runs + 1
    /\ hist' = StartHist(hist.last = "range_done")
    /\ UNCHANGED << g, range, persistent, todo, page, box, rows, df_day, write_header >>

\* lines 264-268, 273-277: the day is in the store
RangeSkip ==
    /\ mode = "range" /\ pc = "loop"
    /\ DateLE(current, end_date)
    /\ AlreadyScraped(IsoStr(current), existing)
    /\ current' = NextDay(current)
    /\ UNCHANGED << g, range, persistent, mode, pc, existing, todo, page, box, rows,
                    df_day, write_header, runs, hist >>

\* lines 269-270: call scrape_day(current)
RangeScrape ==
    /\ mode = "range" /\ pc = "loop"
    /\ DateLE(current, end_date)
    /\ ~AlreadyScraped(IsoStr(current), existing)
    /\ pc' = "scoreboard"
    /\ page' = << >> /\ box' = 0 /\ rows' = << >> /\ df_day' = << >>
    /\ hist' = [hist EXCEPT !.logged = FALSE, !.row_src = << >>, !.got_page = {},
                            !.day = current]
    /\ UNCHANGED << g, range, persistent, mode, existing, todo, current, write_header,
                    runs >>

\* line 264: current > end_date
RangeDone ==
    /\ mode = "range" /\ pc = "loop"
    /\ ~DateLE(current, end_date)
    /\ Reset
    /\ hist' = [hist EXCEPT !.last = "range_done"]
    /\ UNCHANGED << g, range, persistent, runs >>

----------------------------------------------------------------------------
(* scrape_day                                                              *)

\* lines 82-106: rows of the inline summaries, with the block each came from
RECURSIVE Summaries(_, _, _)
Summaries(pg, date_str, i) ==
    IF i > Len(pg) THEN [rows |-> << >>, src |-> << >>]
    ELSE LET rest == Summaries(pg, date_str, i + 1)
             mine == IF pg[i].cls_m THEN SummaryRows(pg[i], date_str) ELSE << >>
         IN  [rows |-> mine \o rest.rows,
              src |-> [k \in 1..Len(mine) |-> [idx |-> i, path |-> "summary"]] \o rest.src]

\* line 82
UsesSummaries(target_date) == target_date.year <= 2003

\* lines 69-73: the scoreboard request ends in a terminal failure; nothing
\* is written to the ledger and an empty frame is returned
ScoreboardFail ==
    /\ mode \in {"range", "rescrape"} /\ pc = "scoreboard"
    /\ "fail" \in ScoreboardGets
    /\ df_day' = << >>
    /\ pc' = "append"
    /\ hist' = [hist EXCEPT !.fetched = TRUE]
    /\ UNCHANGED << g, range, persistent, mode, existing, todo, current, page, box,
                    rows, write_header, runs >>

\* lines 69-106: the scoreboard is fetched; pre-2004 summaries are parsed
ScoreboardOk(rich) ==
    /\ mode \in {"range", "rescrape"} /\ pc = "scoreboard"
    /\ "ok" \in ScoreboardGets
    /\ \E pg \in PagesFor(rich, current) :
          LET s == IF UsesSummaries(current) THEN Summaries(pg, IsoStr(current), 1)
                   ELSE [rows |-> << >>, src |-> << >>]
          IN  /\ page' = pg
              /\ rows' = s.rows
              /\ hist' = [hist EXCEPT !.fetched = TRUE, !.row_src = s.src]
    /\ box' = 1
    /\ pc' = "boxes"
    /\ UNCHANGED << g, range, persistent, mode, existing, todo, current, df_day,
                    write_header, runs >>

\* lines 108-125: the box fails a guard
BoxSkip ==
    /\ pc = "boxes" /\ box <= Len(page)
    /\ ~BoxWanted(page[box], current)
    /\ box' = box + 1
    /\ UNCHANGED << g, range, persistent, mode, pc, existing, todo, current, page, rows,
                    df_day, write_header, runs, hist >>

\* mutation of BoxFetchFail: a game page that cannot be fetched ends the
\* day with an empty frame
BoxFetchFailAborts ==
    /\ pc = "boxes" /\ box <= Len(page)
    /\ BoxWanted(page[box], current)
    /\ "fail" \in GameGets
    /\ df_day' = << >>
    /\ pc' = "append"
    /\ UNCHANGED << g, range, persistent, mode, existing, todo, current, page, box, rows,
                    write_header, runs, hist >>

\* lines 127-130: the game page request ends in a terminal failure
BoxFetchFail ==
    /\ pc = "boxes" /\ box <= Len(page)
    /\ BoxWanted(page[box], current)
    /\ "fail" \in GameGets
    /\ box' = box + 1
    /\ UNCHANGED << g, range, persistent, mode, pc, existing, todo, current, page, rows,
                    df_day, write_header, runs, hist >>

\* lines 127-201: the game page is fetched and parsed
BoxParsed ==
    /\ pc = "boxes" /\ box <= Len(page)
    /\ BoxWanted(page[box], current)
    /\ "ok" \in GameGets
    /\ LET new == GameRows(page[box].game, IsoStr(current))
       IN  /\ rows' = rows \o new
           /\ hist' = [hist EXCEPT
                          !.got_page = @ \cup {box},
                          !.row_src = @ \o [k \in 1..Len(new) |-> [idx |-> box, path |-> "game"]]]
    /\ box' = box + 1
    /\ UNCHANGED << g, range, persistent, mode, pc, existing, todo, current, page, df_day,
                    write_header, runs >>

\* lines 204-211: no rows; "0 games scraped" is logged unless the log is locked
\* (Locks: whether open(LOG_PATH, "a") may raise PermissionError)
DayEmpty(Locks) ==
    /\ pc = "boxes" /\ box > Len(page)
    /\ rows = << >>
    /\ \E locked \in Locks :
          /\ ledger' = IF locked THEN ledger ELSE Append(ledger, LogLine(IsoStr(current), 0))
          /\ hist' = [hist EXCEPT !.logged = ~locked]
    /\ df_day' = << >>
    /\ pc' = "append"
    /\ UNCHANGED << g, range, store, store_exists, store_hdrs, mode, existing, todo,
                    current, page, box, rows, write_header, runs >>

\* lines 213-226: dedupe, log the count unless the log is locked, return the frame
DayDone(Locks) ==
    /\ pc = "boxes" /\ box > Len(page)
    /\ rows # << >>
    /\ LET df == drop_duplicates(rows, DaySubset, "last")
       IN  /\ df_day' = df
           /\ \E locked \in Locks :
                 /\ ledger' = IF locked THEN ledger
                              ELSE Append(ledger, LogLine(IsoStr(current), Len(df)))
                 /\ hist' = [hist EXCEPT !.logged = ~locked]
    /\ pc' = "append"
    /\ UNCHANGED << g, range, store, store_exists, store_hdrs, mode, existing, todo,
                    current, page, box, rows, write_header, runs >>

\* lines 127-130: the boxes of the day whose game page was requested in vain
FailedBoxes ==
    {i \in 1..Len(page) : BoxWanted(page[i], current) /\ i \notin hist.got_page}

\* mutation of AppendToMaster: to_csv(..., header=True) on every append
AppendToMasterHeaderAlways ==
    /\ mode \in {"range", "rescrape"} /\ pc = "append"
    /\ IF df_day = << >>
       THEN UNCHANGED << store, store_exists, store_hdrs >>
       ELSE /\ store' = store \o df_day
            /\ store_hdrs' = Append(store_hdrs, Len(store))
            /\ store_exists' = TRUE
    /\ IF mode = "range"
       THEN current' = NextDay(current) /\ todo' = todo
       ELSE current' = current /\ todo' = Tail(todo)
    /\ pc' = "loop"
    /\ hist' = [hist EXCEPT !.completed = IF hist.logged THEN @ \cup {current} ELSE @,
                            !.day_base = Len(store),
                            !.partial = IF df_day # << >> /\ FailedBoxes # {}
                                        THEN @ \cup {current} ELSE @]
    /\ UNCHANGED << g, range, ledger, mode, existing, page, box, rows, df_day,
                    write_header, runs >>

\* append_to_master(df_day, OUTPUT_PATH), then the caller moves on: the
\* range run sleeps and steps to the next day, the re-scrape takes the next date
AppendToMaster ==
    /\ mode \in {"range", "rescrape"} /\ pc = "append"
    /\ IF df_day = << >>
       THEN UNCHANGED << store, store_exists, store_hdrs >>
       ELSE /\ store' = store \o df_day
            /\ store_hdrs' = IF store_exists THEN store_hdrs ELSE Append(store_hdrs, Len(store))
            /\ store_exists' = TRUE
    /\ IF mode = "range"
       THEN current' = NextDay(current) /\ todo' = todo
       ELSE current' = current /\ todo' = Tail(todo)
    /\ pc' = "loop"
    /\ hist' = [hist EXCEPT !.completed = IF hist.logged THEN @ \cup {current} ELSE @,
                            !.day_base = Len(store),
                            !.partial = IF df_day # << >> /\ FailedBoxes # {}
                                        THEN @ \cup {current} ELSE @]
    /\ UNCHANGED << g, range, ledger, mode, existing, page, box, rows, df_day,
                    write_header, runs >>

\* append_to_master, lines 235-237: os.makedirs or to_csv raises (the csv is
\* locked by the sync client); no caller catches it and the process ends
AppendRaises ==
    /\ mode \in {"range", "rescrape"} /\ pc = "append"
    /\ df_day # << >>
    /\ Reset
    /\ hist' = [hist EXCEPT !.last = "append_error"]
    /\ UNCHANGED << g, range, persistent, runs >>

----------------------------------------------------------------------------
(* rescrape_failed_days                                                    *)

\* lines 27-32
StartRescrape(limit) ==
    /\ mode = "idle" /\ runs < limit
    /\ LET failed == find_failed_days(ledger)
       IN  IF failed = << >>
           THEN UNCHANGED << mode, pc, todo >>
           ELSE mode' = "rescrape" /\ pc' = "loop" /\ todo' = failed
    /\ runs' = runs + 1
    /\ hist' = IF find_failed_days(ledger) = << >>
               THEN [StartHist(FALSE) EXCEPT !.last = "rescrape_done"]
               ELSE StartHist(FALSE)
    /\ UNCHANGED << g, range, persistent, existing, current, page, box, rows, df_day,
                    write_header >>

\* lines 33-35: the next failed date
RescrapeNext ==
    /\ mode = "rescrape" /\ pc = "loop"
    /\ todo # << >>
    /\ current' = StrpDate(Head(todo))
    /\ pc' = "scoreboard"
    /\ page' = << >> /\ box' = 0 /\ rows' = << >> /\ df_day' = << >>
    /\ hist' = [hist EXCEPT !.logged = FALSE, !.row_src = << >>, !.got_page = {},
                            !.day = StrpDate(Head(todo))]
    /\ UNCHANGED << g, range, persistent, mode, existing, todo, write_header, runs >>

\* line 37
RescrapeDone ==
    /\ mode = "rescrape" /\ pc = "loop"
    /\ todo = << >>
    /\ Reset
    /\ hist' = [hist EXCEPT !.last = "rescrape_done"]
    /\ UNCHANGED << g, range, persistent, runs >>

----------------------------------------------------------------------------
(* rebuild_scores_25yrs.scrape_range                                       *)

\* lines 122-132: the output file is deleted
StartRebuild(limit) ==
    /\ mode = "idle" /\ runs < limit
    /\ mode' = "rebuild" /\ pc' = "loop"
    /\ write_header' = TRUE
    /\ store' = << >> /\ store_exists' = FALSE /\ store_hdrs' = << >>
    /\ current' = start_date
    /\ runs' = runs + 1
    /\ hist' = [StartHist(FALSE) EXCEPT !.base = 0, !.day_base = 0,
                                        !.deleted = Len(store)]
    /\ UNCHANGED << g, range, ledger, existing, todo, page, box, rows, df_day >>

\* lines 134-136
RebuildSkip ==
    /\ mode = "rebuild" /\ pc = "loop"
    /\ DateLE(current, end_date)
    /\ ~is_in_season(current)
    /\ current' = NextDay(current)
    /\ UNCHANGED << g, range, persistent, mode, pc, existing, todo, page, box, rows,
                    df_day, write_header, runs, hist >>

\* lines 141-145: the page carries the "no box scores" message
RebuildStub ==
    /\ mode = "rebuild" /\ pc = "loop"
    /\ DateLE(current, end_date)
    /\ is_in_season(current)
    /\ current' = NextDay(current)
    /\ UNCHANGED << g, range, persistent, mode, pc, existing, todo, page, box, rows,
                    df_day, write_header, runs, hist >>

\* mutation of RebuildDay: the file is opened with "w", not "a"
RebuildDayOverwrite(rich) ==
    /\ mode = "rebuild" /\ pc = "loop"
    /\ DateLE(current, end_date)
    /\ is_in_season(current)
    /\ \E html \in PagesFor(rich, current) :
          LET games == parse_day(html, current)
          IN  /\ page' = html
              /\ df_day' = games
              /\ hist' = [hist EXCEPT !.day = current, !.day_base = Len(store)]
              /\ IF games = << >>
                 THEN UNCHANGED << store, store_exists, store_hdrs, write_header >>
                 ELSE /\ store' = games
                      /\ store_hdrs' = IF write_header THEN Append(store_hdrs, Len(store))
                                       ELSE store_hdrs
                      /\ store_exists' = TRUE
                      /\ write_header' = FALSE
    /\ current' = NextDay(current)
    /\ UNCHANGED << g, range, ledger, mode, pc, existing, todo, box, rows, runs >>

\* lines 138-161: fetch the page, parse it, append the games
RebuildDay(rich) ==
    /\ mode = "rebuild" /\ pc = "loop"
    /\ DateLE(current, end_date)
    /\ is_in_season(current)
    /\ \E html \in PagesFor(rich, current) :
          LET games == parse_day(html, current)
          IN  /\ page' = html
              /\ df_day' = games
              /\ hist' = [hist EXCEPT !.day = current, !.day_base = Len(store)]
              /\ IF games = << >>
                 THEN UNCHANGED << store, store_exists, store_hdrs, write_header >>
                 ELSE /\ store' = store \o games
                      /\ store_hdrs' = IF write_header THEN Append(store_hdrs, Len(store))
                                       ELSE store_hdrs
                      /\ store_exists' = TRUE
                      /\ write_header' = FALSE
    /\ current' = NextDay(current)
    /\ UNCHANGED << g, range, ledger, mode, pc, existing, todo, box, rows, runs >>

\* fetch_html, line 30: page.goto raises (timeout, network error); neither
\* fetch_html nor scrape_range catches it and the process ends
RebuildFetchRaises ==
    /\ mode = "rebuild" /\ pc = "loop"
    /\ DateLE(current, end_date)
    /\ is_in_season(current)
    /\ Reset
    /\ hist' = [hist EXCEPT !.last = "fetch_error"]
    /\ UNCHANGED << g, range, persistent, runs >>

\* line 133: d > END
RebuildDone ==
    /\ mode = "rebuild" /\ pc = "loop"
    /\ ~DateLE(current, end_date)
    /\ Reset
    /\ hist' = [hist EXCEPT !.last = "rebuild_done"]
    /\ UNCHANGED << g, range, persistent, runs >>

\* the process is killed (or an exception nobody catches ends it): the files
\* stay as they are
Crash ==
    /\ mode # "idle"
    /\ Reset
    /\ hist' = [hist EXCEPT !.last = "crash"]
    /\ UNCHANGED << g, range, persistent, runs >>

----------------------------------------------------------------------------
(* Specifications                                                          *)

\* the drivers over a range of RangeLen days
Init == g = NoGet /\ InitAt(RangeStarts, RangeLen)

Next ==
    \/ StartRange(MaxRuns) \/ RangeSkip \/ RangeScrape \/ RangeDone
    \/ ScoreboardFail \/ ScoreboardOk(FALSE)
    \/ BoxSkip \/ BoxFetchFail \/ BoxParsed
    \/ DayEmpty({FALSE}) \/ DayDone({FALSE}) \/ AppendToMaster
    \/ StartRescrape(MaxRuns) \/ RescrapeNext \/ RescrapeDone
    \/ Crash

Spec == Init /\ [][Next]_vars

\* one entry point over one day, against every sampled page
InitDay == g = NoGet /\ InitAt(StartDates, 1)

NextDayStep ==
    \/ StartRange(1) \/ RangeScrape \/ RangeDone
    \/ ScoreboardFail \/ ScoreboardOk(TRUE)
    \/ BoxSkip \/ BoxFetchFail \/ BoxParsed
    \/ DayEmpty(BOOLEAN) \/ DayDone(BOOLEAN) \/ AppendToMaster \/ AppendRaises
    \/ StartRebuild(1) \/ RebuildSkip \/ RebuildStub \/ RebuildDay(TRUE)
    \/ RebuildFetchRaises \/ RebuildDone

SpecDay == InitDay /\ [][NextDayStep]_vars

\* one call of safe_get, request by request
InitGet ==
    /\ InitAt({Date(2021, 11, 9)}, 1)
    /\ g \in {NewGet(s.retries, s.base_delay) : s \in CallSites}

Get200 ==
    /\ GetCanTry(g)
    /\ \E o \in Outcomes : o.kind = "200" /\ g' = GetIter(g, o)
    /\ UNCHANGED << range, persistent, mode, pc, existing, todo, current, page, box, rows,
                    df_day, write_header, runs, hist >>

Get429 ==
    /\ GetCanTry(g)
    /\ \E o \in Outcomes : o.kind = "429" /\ g' = GetIter(g, o)
    /\ UNCHANGED << range, persistent, mode, pc, existing, todo, current, page, box, rows,
                    df_day, write_header, runs, hist >>

GetOther ==
    /\ GetCanTry(g)
    /\ \E o \in Outcomes : o.kind = "other" /\ g' = GetIter(g, o)
    /\ UNCHANGED << range, persistent, mode, pc, existing, todo, current, page, box, rows,
                    df_day, write_header, runs, hist >>

GetError ==
    /\ GetCanTry(g)
    /\ \E o \in Outcomes : o.kind = "error" /\ g' = GetIter(g, o)
    /\ UNCHANGED << range, persistent, mode, pc, existing, todo, current, page, box, rows,
                    df_day, write_header, runs, hist >>

GetGiveUp ==
    /\ g.status = "running"
    /\ ~GetCanTry(g)
    /\ g' = GetExhaust(g)
    /\ UNCHANGED << range, persistent, mode, pc, existing, todo, current, page, box, rows,
                    df_day, write_header, runs, hist >>

NextGet == Get200 \/ Get429 \/ GetOther \/ GetError \/ GetGiveUp

SpecGet == InitGet /\ [][NextGet]_vars

----------------------------------------------------------------------------
(* Every entry point, with the exceptions nobody catches                   *)

\* entry points started in one behaviour of this specification
MaxStarts == 2

InitRun == g = NoGet /\ InitAt(RangeStarts, RangeLen)

NextRun ==
    \/ StartRange(MaxStarts) \/ RangeSkip \/ RangeScrape \/ RangeDone
    \/ ScoreboardFail \/ ScoreboardOk(FALSE)
    \/ BoxSkip \/ BoxFetchFail \/ BoxParsed
    \/ DayEmpty({FALSE}) \/ DayDone({FALSE}) \/ AppendToMaster \/ AppendRaises
    \/ StartRescrape(MaxStarts) \/ RescrapeNext \/ RescrapeDone
    \/ StartRebuild(MaxStarts) \/ RebuildSkip \/ RebuildStub \/ RebuildDay(FALSE)
    \/ RebuildFetchRaises \/ RebuildDone

\* a started process keeps executing: whenever a step of the program is
\* possible, one is eventually taken
SpecRun == InitRun /\ [][NextRun]_vars /\ WF_vars(NextRun)

----------------------------------------------------------------------------
(* The reconciliation on a given ledger                                    *)

\* lines of the ledger handed to the reconciliation
MaxLines == 2

\* game counts of the lines: an empty day, and days with 1, 10 and 100 games
LedgerCounts == {0, 1, 10, 100}

InitLedger ==
    /\ g = NoGet
    /\ start_date = Date(2003, 4, 30)
    /\ end_date = PlusDays(start_date, RangeLen - 1)
    /\ store = << >> /\ store_exists = FALSE /\ store_hdrs = << >>
    /\ ledger \in SeqsUpTo({LogLine(IsoStr(PlusDays(start_date, i)), n) :
                               i \in 0..(RangeLen - 1), n \in LedgerCounts}, MaxLines)
    /\ mode = "idle" /\ pc = "idle"
    /\ existing = {} /\ todo = << >>
    /\ current = start_date
    /\ page = << >> /\ box = 0 /\ rows = << >> /\ df_day = << >>
    /\ write_header = FALSE
    /\ runs = 0
    /\ hist = NoHist

NextLedger ==
    \/ StartRescrape(1) \/ RescrapeNext \/ RescrapeDone
    \/ ScoreboardFail \/ ScoreboardOk(FALSE)
    \/ BoxSkip \/ BoxFetchFail \/ BoxParsed
    \/ DayEmpty({FALSE}) \/ DayDone({FALSE}) \/ AppendToMaster

SpecLedger == InitLedger /\ [][NextLedger]_vars

----------------------------------------------------------------------------
(* scrape_day request by request: every safe_get call of one day           *)

\* the pages served for the day: no game at all, and two men's games with a
\* women's game
PacePages(d) == {<< >>, ScenarioPage(d, "linescore")}

\* what one loop iteration of safe_get did, in order: the request (with the
\* outcome it had) and the sleeps taken after it
NetEvents(url, c, c2) ==
    << [ev |-> "request", url |-> url, kind |-> c2.hist[Len(c2.hist)]] >>
        \o [k \in 1..(Len(c2.waits) - Len(c.waits)) |->
               [ev |-> "sleep", url |-> url, kind |-> c2.waits[Len(c.waits) + k].why]]

\* line 70: safe_get(url, HEADERS) is entered
ScoreboardCall ==
    /\ mode = "range" /\ pc = "scoreboard" /\ hist.call = -1
    /\ g' = NewGet(4, 80)
    /\ hist' = [hist EXCEPT !.call = 0]
    /\ UNCHANGED << range, persistent, mode, pc, existing, todo, current, page, box, rows,
                    df_day, write_header, runs >>

\* lines 39-56: one request for the scoreboard and the sleeps after it
ScoreboardRequest ==
    /\ pc = "scoreboard" /\ hist.call = 0
    /\ GetCanTry(g)
    /\ \E o \in Outcomes :
          /\ g' = GetIter(g, o)
          /\ hist' = [hist EXCEPT !.net = @ \o NetEvents("scoreboard", g, GetIter(g, o))]
    /\ UNCHANGED << range, persistent, mode, pc, existing, todo, current, page, box, rows,
                    df_day, write_header, runs >>

\* lines 57-58: the budget is used up
ScoreboardGiveUp ==
    /\ pc = "scoreboard" /\ hist.call = 0
    /\ g.status = "running" /\ ~GetCanTry(g)
    /\ g' = GetExhaust(g)
    /\ UNCHANGED << range, persistent, mode, pc, existing, todo, current, page, box, rows,
                    df_day, write_header, runs, hist >>

\* lines 71-73: safe_get returned None
ScoreboardNone ==
    /\ hist.call = 0 /\ g.status = "fail"
    /\ ScoreboardFail

\* lines 75-106: safe_get returned the page
ScoreboardPage ==
    /\ hist.call = 0 /\ g.status = "ok"
    /\ ScoreboardOk(TRUE)
    /\ page' \in PacePages(current)

\* line 128: safe_get(game_url, HEADERS, retries=3, base_delay=3.0) is entered
GameCall ==
    /\ pc = "boxes" /\ box <= Len(page)
    /\ BoxWanted(page[box], current)
    /\ hist.call # box
    /\ g' = NewGet(3, 30)
    /\ hist' = [hist EXCEPT !.call = box]
    /\ UNCHANGED << range, persistent, mode, pc, existing, todo, current, page, box, rows,
                    df_day, write_header, runs >>

\* lines 39-56: one request for the game page and the sleeps after it
GameRequest ==
    /\ pc = "boxes" /\ box <= Len(page) /\ hist.call = box
    /\ GetCanTry(g)
    /\ \E o \in Outcomes :
          /\ g' = GetIter(g, o)
          /\ hist' = [hist EXCEPT !.net = @ \o NetEvents("game", g, GetIter(g, o))]
    /\ UNCHANGED << range, persistent, mode, pc, existing, todo, current, page, box, rows,
                    df_day, write_header, runs >>

\* lines 57-58: the budget is used up
GameGiveUp ==
    /\ pc = "boxes" /\ box <= Len(page) /\ hist.call = box
    /\ g.status = "running" /\ ~GetCanTry(g)
    /\ g' = GetExhaust(g)
    /\ UNCHANGED << range, persistent, mode, pc, existing, todo, current, page, box, rows,
                    df_day, write_header, runs, hist >>

\* lines 129-130: safe_get returned None
GameNone ==
    /\ hist.call = box /\ g.status = "fail"
    /\ BoxFetchFail

\* lines 132-198: safe_get returned the game page
GamePage ==
    /\ hist.call = box /\ g.status = "ok"
    /\ BoxParsed

InitPace == g = NoGet /\ InitAt({Date(2021, 11, 9)}, 1)

NextPace ==
    \/ StartRange(1) \/ RangeScrape \/ RangeDone
    \/ ScoreboardCall \/ ScoreboardRequest \/ ScoreboardGiveUp
    \/ ScoreboardNone \/ ScoreboardPage
    \/ BoxSkip \/ GameCall \/ GameRequest \/ GameGiveUp \/ GameNone \/ GamePage
    \/ DayEmpty({FALSE}) \/ DayDone({FALSE}) \/ AppendToMaster

SpecPace == InitPace /\ [][NextPace]_vars

----------------------------------------------------------------------------
(* Range runs over a day of which only some game pages arrive              *)

PartialStarts == {Date(2003, 12, 31), Date(2021, 11, 9)}

InitPartial == g = NoGet /\ InitAt(PartialStarts, 1)

\* lines 69-106 against the pages of PacePages
ScoreboardScenario ==
    /\ mode \in {"range", "rescrape"} /\ pc = "scoreboard"
    /\ "ok" \in ScoreboardGets
    /\ \E pg \in PacePages(current) :
          LET s == IF UsesSummaries(current) THEN Summaries(pg, IsoStr(current), 1)
                   ELSE [rows |-> << >>, src |-> << >>]
          IN  /\ page' = pg
              /\ rows' = s.rows
              /\ hist' = [hist EXCEPT !.fetched = TRUE, !.row_src = s.src]
    /\ box' = 1
    /\ pc' = "boxes"
    /\ UNCHANGED << g, range, persistent, mode, existing, todo, current, df_day,
                    write_header, runs >>

NextPartial ==
    \/ StartRange(MaxStarts) \/ RangeSkip \/ RangeScrape \/ RangeDone
    \/ ScoreboardFail \/ ScoreboardScenario
    \/ BoxSkip \/ BoxFetchFail \/ BoxParsed
    \/ DayEmpty({FALSE}) \/ DayDone({FALSE}) \/ AppendToMaster \/ AppendRaises

SpecPartial == InitPartial /\ [][NextPartial]_vars

----------------------------------------------------------------------------
(* Properties of the request client (SpecGet)                              *)

Backoffs(c) == Cardinality({i \in 1..Len(c.waits) : c.waits[i].why = "backoff"})

\* C9: whatever the server answers, safe_get issues at most `retries`
\* requests; when every answer before a 200 was a 429 it returns the content
\* after exactly one backoff wait per 429; when all `retries` attempts were
\* used up it returns the terminal failure.
SafeGetBudget ==
    /\ g.requests <= g.retries
    /\ g.attempt <= g.retries
    /\ g.status = "ok" =>
          /\ g.hist[Len(g.hist)] = "200"
          /\ (\A i \in 1..(Len(g.hist) - 1) : g.hist[i] = "429")
                => Backoffs(g) = Len(g.hist) - 1
    /\ (g.status # "running" /\ g.attempt = g.retries) => g.status = "fail"

\* 429, 429, 200: content after exactly two backoff waits
TwoBackoffsThenContent ==
    /\ g.hist = << "429", "429", "200" >>
    /\ g.status = "ok"
    /\ Backoffs(g) = 2

\* C10: a status other than 200 and 429 ends the call at once with the
\* terminal failure: it is the last request of the call, and the only sleep
\* after it is the pacing pause, whatever budget is left.
OtherStatusIsTerminal ==
    \A i \in 1..Len(g.hist) :
        g.hist[i] = "other" =>
            /\ i = Len(g.hist)
            /\ g.status = "fail"
            /\ g.waits[Len(g.waits)].why = "pace"

\* a 404 on the second of four attempts
OtherStatusWithBudgetLeft ==
    /\ g.hist = << "429", "other" >>
    /\ g.status = "fail"
    /\ g.retries - g.requests >= 2

\* the sleeps of one reason, in the order safe_get took them
WaitsFor(c, why) == SelectSeq(c.waits, LAMBDA w : w.why = why)

\* the zero-based attempts whose request ended in kind
AttemptsOf(c, kind) == {i - 1 : i \in {j \in 1..Len(c.hist) : c.hist[j] = kind}}

\* the n-th smallest element of a set of numbers
Nth(S, n) == CHOOSE x \in S : Cardinality({y \in S : y < x}) = n - 1

\* C24: the wait after a 429 on zero-based attempt k, where k counts every
\* earlier request of the call (transport errors included), lies between
\* base_delay * 2^k + 1 s and base_delay * 2^k + 3 s, so the waits of successive
\* 429s strictly increase; the wait after a transport error is base_delay.
BackoffWaits ==
    LET b == WaitsFor(g, "backoff")
        e == WaitsFor(g, "error")
        on429 == AttemptsOf(g, "429")
    IN  /\ Len(b) = Cardinality(on429)
        /\ \A j \in 1..Len(b) :
              LET k == Nth(on429, j)
              IN  /\ b[j].dur >= g.base_delay * (2 ^ k) + 10
                  /\ b[j].dur <= g.base_delay * (2 ^ k) + 30
        /\ \A j \in 1..(Len(b) - 1) : b[j].dur < b[j + 1].dur
        /\ Len(e) = Cardinality(AttemptsOf(g, "error"))
        /\ \A j \in 1..Len(e) : e[j].dur = g.base_delay

\* a transport error on attempt 0, then a 429 on attempts 1 and 2
ErrorThenTwo429 ==
    /\ Len(g.hist) >= 3
    /\ g.hist[1] = "error" /\ g.hist[2] = "429" /\ g.hist[3] = "429"

----------------------------------------------------------------------------
(* Properties of the day's requests (SpecPace)                             *)

Requests(url, kinds) ==
    {i \in 1..Len(hist.net) :
        hist.net[i].ev = "request" /\ hist.net[i].url = url /\ hist.net[i].kind \in kinds}

\* C11: in the trace of requests and sleeps of a day (scoreboard, game pages
\* and their retries), every request is directly followed by a sleep, and
\* after a request that returned a response that sleep is the pacing pause:
\* no two requests are issued without a sleep between them.
Pacing ==
    \A i \in 1..Len(hist.net) :
        hist.net[i].ev = "request" =>
            /\ i < Len(hist.net)
            /\ hist.net[i + 1].ev = "sleep"
            /\ hist.net[i].kind # "error" => hist.net[i + 1].kind = "pace"

\* the day is through: the scoreboard came after a 429, both game pages were
\* fetched, one of them after a transport error
PacedDayWithRetries ==
    /\ pc = "append" /\ hist.got_page = {1, 2}
    /\ Requests("scoreboard", {"429"}) # {}
    /\ Requests("game", {"error"}) # {}
    /\ Cardinality(Requests("game", {"200"})) = 2

\* C15: a day recorded as empty ("0 games scraped") had its scoreboard
\* fetched and extracted exactly twice: the first extraction and one retry.
EmptyDayRetriedOnce ==
    (pc = "append" /\ box > 0 /\ rows = << >>) =>
        /\ ledger # << >>
        /\ ledger[Len(ledger)] = LogLine(IsoStr(current), 0)
        /\ Cardinality(Requests("scoreboard", {"200"})) = 2

----------------------------------------------------------------------------
(* Properties of the extraction (SpecDay)                                  *)

SeqRange(q) == {q[i] : i \in 1..Len(q)}

\* the DedupKey of a row
CanonKey(r) == canon_key(r.date, r.home_team, r.away_team, r.home, r.away)

CanonSubset == {"date", "home_team", "away_team", "home", "away"}

\* the block a collected row came from
SrcBlock(k) == page[hist.row_src[k].idx]

\* the rows of the last append
Batch == SubSeq(store, hist.day_base + 1, Len(store))

\* C4: every row collected by scrape_day (inline summaries and game pages),
\* every row returned by scrape_day or parse_day and every row of the Output
\* Store has total = home + away and margin = home - away, signed.
TotalsAndMargins ==
    \A r \in SeqRange(rows) \cup SeqRange(df_day) \cup SeqRange(store) :
        /\ r.total = r.home + r.away
        /\ r.margin = r.home - r.away

\* a home loss 60-75 is stored with margin -15
HomeLossStored ==
    \E r \in SeqRange(store) : r.home = 60 /\ r.away = 75 /\ r.margin = -15 /\ r.total = 135

\* C5: no row of the day comes from a block whose detail link carries another
\* date than the target day, in scrape_day and in parse_day.
DateGuard ==
    /\ mode \in {"range", "rescrape"} =>
          \A k \in 1..Len(rows) : ~(SrcBlock(k).link /\ SrcBlock(k).href_date # hist.day)
    /\ mode = "rebuild" =>
          \A i \in 1..Len(page) :
              (page[i].link /\ page[i].href_date # hist.day)
                  => ParseBlock(page[i], hist.day) = << >>

\* a women's game by the structural marker or by the textual descriptor
WomenBySignal(b) == b.td_women \/ b.href_women

\* a men's block of day d by every signal
ValidMens(b, d) ==
    /\ b.cls_m /\ b.mens_text /\ ~b.td_women /\ ~b.href_women
    /\ b.trows[1].men /\ b.trows[2].men
    /\ b.link /\ b.href_date = d

\* C6: when scrape_day returns, no row comes from a block that either signal
\* marks as a women's game, every men's block of the target day whose game
\* page was fetched has its row, and the page with two men's games (70-65,
\* 80-79 OT) and one women's game gives exactly two rows, margins +5 and +1,
\* the second with ot.
CompetitionClassGuard ==
    (mode = "range" /\ pc = "append") =>
        /\ \A k \in 1..Len(rows) : ~WomenBySignal(SrcBlock(k))
        /\ \A i \in hist.got_page :
              ValidMens(page[i], hist.day) => \E k \in 1..Len(rows) : hist.row_src[k].idx = i
        /\ ((\E fmt \in Formats : page = ScenarioPage(hist.day, fmt)) /\ hist.got_page = {1, 2})
              => /\ Len(df_day) = 2
                 /\ df_day[1].margin = 5
                 /\ df_day[2].margin = 1
                 /\ df_day[2].ot

\* C7: when two different blocks of the page give rows with the same
\* DedupKey, exactly one row with that key is appended for the day.
DuplicateBlocksGiveOneRow ==
    /\ (mode = "range" /\ pc = "loop") =>
          \A k1, k2 \in 1..Len(rows) :
              (hist.row_src[k1].idx # hist.row_src[k2].idx /\ CanonKey(rows[k1]) = CanonKey(rows[k2]))
                  => Cardinality({n \in 1..Len(Batch) : CanonKey(Batch[n]) = CanonKey(rows[k1])}) = 1
    /\ mode = "rebuild" =>
          \A i, j \in 1..Len(page) :
              LET ri == ParseBlock(page[i], hist.day)
                  rj == ParseBlock(page[j], hist.day)
              IN  (i # j /\ ri # << >> /\ rj # << >> /\ CanonKey(ri[1]) = CanonKey(rj[1]))
                      => Cardinality({n \in 1..Len(df_day) : CanonKey(df_day[n]) = CanonKey(ri[1])}) = 1

\* C8: the frame a day returns is the day's rows with, for each DedupKey,
\* only the last row of that key: rows collapse exactly when all five
\* components agree, so two scores of one pairing both stay.
DedupByFullKey ==
    /\ (mode = "range" /\ pc = "append" /\ rows # << >>) =>
          df_day = drop_duplicates(rows, CanonSubset, "last")
    /\ (mode = "rebuild" /\ page # << >>) =>
          df_day = drop_duplicates(ParseBlocks(page, hist.day, 1), CanonSubset, "last")

\* C21: every row collected for a day, returned for it or stored in the
\* Output Store has two non-empty team names and two non-negative scores:
\* a candidate with an empty name, a negative score or a score that is not
\* an integer leaves no row.
StoredRecordsValid ==
    \A r \in SeqRange(rows) \cup SeqRange(df_day) \cup SeqRange(store) :
        /\ r.home_team # "" /\ r.away_team # ""
        /\ r.home >= 0 /\ r.away >= 0

\* C25: the extraction strategies are tried in a fixed priority order, the
\* scoreboard's inline summary last: a game gets a row from the inline
\* summary only when its game page gave none, and no game contributes more
\* than one row to the day's list before deduplication.
StrategyPriority ==
    mode \in {"range", "rescrape"} =>
        \A k1, k2 \in 1..Len(hist.row_src) :
            k1 # k2 => hist.row_src[k1].idx # hist.row_src[k2].idx

----------------------------------------------------------------------------
(* Properties of the drivers (Spec)                                        *)

\* the days of the requested range
RangeDays == {PlusDays(start_date, i) : i \in 0..(RangeLen - 1)}

ResumeSkipsCompleted ==
    (mode = "range" /\ hist.resumed /\ pc = "scoreboard") =>
        /\ current \notin hist.done_before
        /\ ~hist.fetched =>
              \A d \in RangeDays : (DateLE(d, current) /\ d # current) => d \in hist.done_before

\* C3: when the re-scrape has finished, no row it appended has the DedupKey
\* of another row of the Output Store: a record already present is dropped,
\* not appended again.
NoDuplicateAfterRescrape ==
    hist.last = "rescrape_done" =>
        \A n \in (hist.base + 1)..Len(store) :
            \A m \in 1..Len(store) : m # n => CanonKey(store[m]) # CanonKey(store[n])

\* C12: when scrape_day returns after the scoreboard request ended in a
\* terminal failure, the ledger has an entry for that date, and
\* find_failed_days on that ledger returns the date.
ScoreboardFailureLogged ==
    (mode \in {"range", "rescrape"} /\ pc = "append" /\ box = 0) =>
        /\ \E i \in 1..Len(ledger) : ledger[i].date = IsoStr(current)
        /\ IsoStr(current) \in SeqRange(find_failed_days(ledger))

\* C16: for a day of an off-season month no scoreboard is requested and no
\* ledger line is written.
OffSeasonDaysSkipped ==
    /\ (mode \in {"range", "rescrape"} /\ pc \in {"boxes", "append"} /\ hist.fetched)
          => current.month \notin OFFSEASON_MONTHS
    /\ \A i \in 1..Len(ledger) : ledger[i].date.month \notin OFFSEASON_MONTHS

\* the ledger holds a failure entry of date d and, after it, an entry of d
\* with games
Recovered(d) ==
    \E i, j \in 1..Len(ledger) :
        /\ i < j
        /\ ledger[i].date = d /\ ledger[i].n = 0
        /\ ledger[j].date = d /\ ledger[j].n >= 1

\* C18: a re-scrape pass never calls scrape_day for a date whose ledger
\* history has a failure entry followed by a later entry with games: the
\* date an earlier pass recovered is not fetched again.
RecoveredNotRefetched ==
    (mode = "rescrape" /\ pc = "scoreboard") => ~Recovered(IsoStr(current))

\* C22: a ledger line "<date>: N games scraped" with N >= 1 is only ever
\* present when N rows of that date are already in the Output Store, i.e.
\* the day's rows are appended before its ledger line is written.
LedgerAfterStore ==
    \A i \in 1..Len(ledger) :
        ledger[i].n >= 1 =>
            Cardinality({k \in 1..Len(store) : store[k].date = ledger[i].date}) >= ledger[i].n

----------------------------------------------------------------------------
(* Properties of the reconciliation (SpecLedger)                           *)

\* dates with a "<date>: 0 games scraped" line
ZeroGameDates == {ledger[i].date : i \in {j \in 1..Len(ledger) : ledger[j].n = 0}}

\* C17: the dates rescrape_failed_days gets from find_failed_days are
\* exactly the dates with a zero-games line; a date whose lines all have
\* N >= 1 (10 and 100 included) is not among them, and when the pass ends
\* without visiting a date there was no zero-games line.
FailedDaysExact ==
    /\ (mode = "rescrape" /\ pc = "loop" /\ hist.day = Date(0, 0, 0))
          => SeqRange(todo) = ZeroGameDates
    /\ (mode = "idle" /\ hist.last = "rescrape_done" /\ hist.day = Date(0, 0, 0))
          => ZeroGameDates = {}

----------------------------------------------------------------------------
(* Properties of the entry points (SpecRun)                                *)

\* C13: every range run and every rebuild that was started ends by leaving
\* its day loop past the end date (unless a failed write of the Output
\* Store ended it), and while it runs the day only moves forward one day at
\* a time: fetch and parse failures of a day never stop the later days.
RunCompletesRange ==
    /\ \A k \in 1..MaxStarts :
          [](  (runs = k /\ mode \in {"range", "rebuild"})
            => <>(/\ runs = k /\ mode = "idle"
                  /\ hist.last \in {"range_done", "rebuild_done", "append_error"}))
    /\ [][(mode \in {"range", "rebuild"} /\ mode' = mode)
            => current' \in {current, NextDay(current)}]_vars

\* C14: the step in which a write fails (the ledger line of the day is not
\* written, or the frame of the day is not appended to the Output Store)
\* leaves the run going.
PersistenceFailureKeepsRunning ==
    [][(  \/ (pc = "boxes" /\ pc' = "append" /\ ledger' = ledger)
          \/ (pc = "append" /\ pc' # "append" /\ df_day # << >> /\ store' = store))
        => mode' = mode]_vars

IsPrefix(p, q) == Len(p) <= Len(q) /\ SubSeq(q, 1, Len(p)) = p

Columns == {"date", "home_team", "away_team", "home", "away", "total", "margin", "ot"}

\* C20: the output file, if it exists, has exactly one header line, above
\* all data rows, and at least one data row (an empty append creates no
\* file); every data row has all columns; without the file there is no
\* header and no row.
HeaderOnceThenRows ==
    /\ store_exists => (store_hdrs = << 0 >> /\ store # << >>)
    /\ ~store_exists => (store_hdrs = << >> /\ store = << >>)
    /\ \A i \in 1..Len(store) : DOMAIN store[i] = Columns

\* rows were appended to an output file that already had rows
SecondAppendToFile ==
    /\ store_exists
    /\ hist.day_base >= 1
    /\ Len(store) > hist.day_base

\* C23: the ledger lines written by one invocation (a range run or a
\* re-scrape pass) are in non-decreasing date order.
LedgerOrderInRun ==
    \A i, j \in (hist.log_base + 1)..Len(ledger) :
        i < j => DateLE(StrpDate(ledger[i].date), StrpDate(ledger[j].date))

\* a re-scrape pass has ended after writing lines for two different dates
RescrapeLoggedTwoDays ==
    /\ hist.last = "rescrape_done"
    /\ Len(ledger) >= hist.log_base + 2
    /\ ledger[Len(ledger)].date # ledger[Len(ledger) - 1].date

----------------------------------------------------------------------------
(* Properties of partially fetched days (SpecPartial)                      *)

\* scrape_day has returned from a day of which some game pages, not all,
\* could be fetched
PartialDayReturned ==
    /\ mode = "range" /\ pc = "append"
    /\ FailedBoxes # {} /\ hist.got_page # {}

\* the rows of the fetched game pages are returned and their count is logged
SurvivorsLogged ==
    /\ df_day # << >>
    /\ \A i \in hist.got_page :
          SeqRange(GameRows(page[i].game, IsoStr(current))) \subseteq SeqRange(df_day)
    /\ ledger # << >>
    /\ ledger[Len(ledger)] = LogLine(IsoStr(current), Len(df_day))

====
